---- MODULE Spec2Model ----
(***************************************************************************)
(* Trunk Player v2: the transmission import endpoint, the entity store it  *)
(* writes, the post_save fan-out and the live WebSocket consumer.          *)
(*                                                                         *)
(* Strings whose content the code inspects (names, slugs, the Authorization*)
(* header) are sequences of one-character strings, so that slugify and     *)
(* str.replace are computed, not assumed.                                  *)
(***************************************************************************)
EXTENDS Integers, Sequences, FiniteSets, TLC

VARIABLES
    systems,            \* System rows
    talkgroups,         \* TalkGroup rows
    units,              \* Unit rows
    transmissions,      \* Transmission rows
    transmission_units, \* TransmissionUnit (junction) rows
    scanlist_tgs,       \* ScanList.talkgroups: scanlist slug -> set of TalkGroup ids
    access_group_tgs,   \* TalkGroupAccess.talkgroups: group name -> set of TalkGroup ids
    imp,                \* one import request per recorder process
    channel_layer,      \* what get_channel_layer() / group_send do now: "up", "none", "failing"
    published,          \* group_send calls made by send_transmission_notification
    conn,               \* RadioConsumer instances: connection state and self.groups
    layer,              \* channel layer: group name -> set of member connections
    received,           \* per connection: events handed to it by the channel layer
    redelivered,        \* per connection: events handed to it more than once
    unsubbed,           \* per connection: channels subscribed and later unsubscribed
    created_as,         \* per Transmission id: the names its FK targets had when it was created
    profiles,           \* per user: the TalkGroupAccess groups of its Profile, or NoProfile
    access_result,      \* the last answer of the talkgroup access resolver
    ACCESS_TG_RESTRICT, \* settings.ACCESS_TG_RESTRICT of the deployment
    now,                \* timezone.now(), in minutes
    api_response,       \* the last response of a transmission endpoint of the REST API
    incident_tms,       \* Incident.transmissions: incident slug -> set of Transmission ids
    plans,              \* Plan rows: pk -> is_default
    plan_save,          \* per process: the Plan.save call it is in
    archive,            \* TransmissionArchive: original_id -> number of rows holding it,
                        \* counted up to MaxArchiveCopies (which stands for that many or more)
    cmd                 \* the archive_transmissions run: options, position, counters

storeVars == <<systems, talkgroups, units, transmissions, transmission_units>>
aclVars == <<scanlist_tgs, access_group_tgs>>
wsVars == <<conn, layer, received, redelivered, unsubbed>>
apiVars == <<now, api_response, incident_tms>>
archiveVars == <<archive, cmd>>
planVars == <<plans, plan_save, archiveVars>>
authVars == <<profiles, access_result, ACCESS_TG_RESTRICT, planVars, apiVars>>
vars == <<systems, talkgroups, units, transmissions, transmission_units,
          scanlist_tgs, access_group_tgs, imp, channel_layer, authVars, published,
          conn, layer, received, redelivered, unsubbed, created_as, profiles,
          access_result,
          ACCESS_TG_RESTRICT, now, api_response, incident_tms, plans, plan_save,
          archive, cmd>>

\* ------------------------------------------------------------------ bounds

NumProcs == 2
MaxTransmissions == 2
MaxGroups == 3
MaxTalkGroups == 4
MaxArchiveCopies == 3

\* ----------------------------------------------------------------- strings

UpperChars == <<"A","B","C","D","E","F","G","H","I","J","K","L","M",
                "N","O","P","Q","R","S","T","U","V","W","X","Y","Z">>
LowerChars == <<"a","b","c","d","e","f","g","h","i","j","k","l","m",
                "n","o","p","q","r","s","t","u","v","w","x","y","z">>
DigitChars == <<"0","1","2","3","4","5","6","7","8","9">>

Range(s) == {s[i] : i \in DOMAIN s}

\* str.lower on one character
Lower(c) ==
    IF c \in Range(UpperChars)
    THEN LowerChars[CHOOSE i \in DOMAIN UpperChars : UpperChars[i] = c]
    ELSE c

\* the regex class \w (ASCII letters, digits, underscore)
IsWordChar(c) ==
    c \in Range(UpperChars) \cup Range(LowerChars) \cup Range(DigitChars) \cup {"_"}

IsSepChar(c) == c \in {" ", "-"}

KeepInSlug(c) == IsWordChar(c) \/ IsSepChar(c)

\* re.sub(r"[-\s]+", "-", value): every maximal run of separators becomes one "-"
RECURSIVE CollapseSeps(_)
CollapseSeps(s) ==
    IF s = <<>> THEN <<>>
    ELSE IF IsSepChar(Head(s))
         THEN IF Len(s) > 1 /\ IsSepChar(s[2])
              THEN CollapseSeps(Tail(s))
              ELSE <<"-">> \o CollapseSeps(Tail(s))
         ELSE <<Head(s)>> \o CollapseSeps(Tail(s))

\* str.strip("-_")
RECURSIVE StripLeft(_)
StripLeft(s) ==
    IF s # <<>> /\ Head(s) \in {"-", "_"} THEN StripLeft(Tail(s)) ELSE s

RECURSIVE StripRight(_)
StripRight(s) ==
    IF s # <<>> /\ s[Len(s)] \in {"-", "_"}
    THEN StripRight(SubSeq(s, 1, Len(s) - 1)) ELSE s

\* django.utils.text.slugify on ASCII input
Slugify(s) ==
    LET lowered == [i \in DOMAIN s |-> Lower(s[i])]
        kept == SelectSeq(lowered, KeepInSlug)
    IN StripRight(StripLeft(CollapseSeps(kept)))

\* str(n) for n >= 0
RECURSIVE IntToStr(_)
IntToStr(n) ==
    IF n < 10 THEN <<DigitChars[n + 1]>>
    ELSE IntToStr(n \div 10) \o <<DigitChars[(n % 10) + 1]>>

\* str.replace(old, ""): removes the non-overlapping occurrences, left to right
RECURSIVE RemoveAll(_, _)
RemoveAll(s, old) ==
    IF Len(s) < Len(old) \/ old = <<>> THEN s
    ELSE IF SubSeq(s, 1, Len(old)) = old
         THEN RemoveAll(SubSeq(s, Len(old) + 1, Len(s)), old)
         ELSE <<Head(s)>> \o RemoveAll(Tail(s), old)

\* Python truthiness of a string / the `a or b` idiom on strings
Or2(a, b) == IF a # <<>> THEN a ELSE b


\* ------------------------------------------------------------ entity store

Pks(rows) == {r.id : r \in rows}

\* the next AutoField value (no row of these tables is deleted by the modelled code)
NextPk(rows) == IF rows = {} THEN 1 ELSE (CHOOSE m \in Pks(rows) : \A k \in Pks(rows) : k <= m) + 1

SystemById(id) == CHOOSE s \in systems : s.id = id
TalkGroupById(id) == CHOOSE t \in talkgroups : t.id = id
UnitById(id) == CHOOSE u \in units : u.id = id

\* System.save: the slug is derived once, when absent
SystemSave(row) ==
    IF row.slug = <<>> THEN [row EXCEPT !.slug = Slugify(row.name)] ELSE row

\* System.name and System.slug are both unique=True
SystemUniqueViolated(row) ==
    \E s \in systems : s.id # row.id /\ (s.name = row.name \/ s.slug = row.slug)

\* f"TG {dec_id}"
TgLabel(dec_id) == <<"T", "G", " ">> \o IntToStr(dec_id)

\* TalkGroup.save: slug = "<system slug>-<slugify(alpha_tag or tg-<dec_id>)>", once
TalkGroupSave(row) ==
    IF row.slug = <<>>
    THEN LET tg_part == Slugify(Or2(row.alpha_tag, <<"t", "g", "-">> \o IntToStr(row.dec_id)))
         IN [row EXCEPT !.slug = IF row.system # 0
                                  THEN SystemById(row.system).slug \o <<"-">> \o tg_part
                                  ELSE tg_part]
    ELSE row

\* mutant: the table has no unique constraint, get_or_create is check-then-act only
TalkGroupUniqueViolated_Unconstrained(row) == FALSE

\* TalkGroup.Meta.constraints: unique_talkgroup_per_system
TalkGroupUniqueViolated(row) ==
    \E t \in talkgroups : t.id # row.id /\ t.dec_id = row.dec_id /\ t.system = row.system

\* TalkGroup.display_name
DisplayName(tg) == Or2(tg.common_name, Or2(tg.alpha_tag, TgLabel(tg.dec_id)))

\* TalkGroupAccess rows; the ones flagged default_new_talkgroups
AccessGroups == {"auto", "manual"}
DefaultNewTalkgroups == {"auto"}

\* post_save receiver of TalkGroup: new public talkgroups join the flagged groups
AddTalkgroupToDefaultGroups(groups, tg, created) ==
    IF created /\ tg.is_public
    THEN [g \in AccessGroups |->
            IF g \in DefaultNewTalkgroups THEN groups[g] \cup {tg.id} ELSE groups[g]]
    ELSE groups

\* mutant: save refreshes the denormalized names from the FK targets every time
TransmissionSave_Refresh(row) ==
    [row EXCEPT !.talkgroup_dec_id = TalkGroupById(row.talkgroup_info).dec_id,
                !.talkgroup_name = DisplayName(TalkGroupById(row.talkgroup_info)),
                !.system_name = SystemById(row.system).name]

\* Transmission.save: the denormalized fields are filled only while they are blank
TransmissionSave(row) ==
    LET tg == TalkGroupById(row.talkgroup_info)
        withDec == IF row.talkgroup_info # 0 /\ row.talkgroup_dec_id = 0
                   THEN [row EXCEPT !.talkgroup_dec_id = tg.dec_id] ELSE row
        withTg == IF row.talkgroup_info # 0 /\ withDec.talkgroup_name = <<>>
                  THEN [withDec EXCEPT !.talkgroup_name = DisplayName(tg)] ELSE withDec
    IN IF row.system # 0 /\ withTg.system_name = <<>>
       THEN [withTg EXCEPT !.system_name = SystemById(row.system).name]
       ELSE withTg

\* the UUIDs uuid.uuid4 can return (Transmission.slug default)
Uuids == {<<"uuid", k>> : k \in 1 .. MaxTransmissions}


\* ------------------------------------------------------------------ fan-out

Conns == {"c1"}

DefaultLabel == <<"d", "e", "f", "a", "u", "l", "t">>

ScanType == <<"s", "c", "a", "n">>
TgType == <<"t", "g">>
UnitType == <<"u", "n", "i", "t">>
IncType == <<"i", "n", "c">>

\* f"livecall-{channel_type}-{label}"
ChannelName(channel_type, label) ==
    <<"l", "i", "v", "e", "c", "a", "l", "l", "-">> \o channel_type \o <<"-">> \o label

\* the literal "livecall-scan-default"
DefaultChannel ==
    <<"l", "i", "v", "e", "c", "a", "l", "l", "-", "s", "c", "a", "n", "-",
      "d", "e", "f", "a", "u", "l", "t">>

ScanLists == {<<"n", "o", "r", "t", "h">>, <<"e", "a", "s", "t">>}

\* instance.talkgroup_info.scanlists.values_list("slug", flat=True)
ScanSlugs(tgId) == {sl \in ScanLists : tgId \in scanlist_tgs[sl]}

\* the transport a notification meets: get_channel_layer() returns a layer and
\* group_send succeeds ("up"), get_channel_layer() returns None ("none"), or
\* group_send raises because Redis is unreachable ("failing")
LayerStates == {"up", "none", "failing"}

\* Transmission.as_dict
AsDict(t) ==
    [slug |-> t.slug,
     start_datetime |-> IntToStr(t.start_datetime),
     talkgroup_slug |-> TalkGroupById(t.talkgroup_info).slug,
     talkgroup_dec_id |-> IntToStr(t.talkgroup_dec_id),
     talkgroup_name |-> t.talkgroup_name,
     system_name |-> t.system_name,
     emergency |-> t.emergency,
     play_length |-> t.play_length]

\* payload = instance.as_dict(); payload["scan-groups"] = scan_slugs
NotificationPayload(t) == ("scan-groups" :> ScanSlugs(t.talkgroup_info)) @@ AsDict(t)

\* RadioConsumer.radio_message: the frame sent to the client is the text of the event
RadioMessage(m) == m.text

\* send_transmission_notification: the group_send calls it makes for one saved row
NotificationSends(t) ==
    IF channel_layer = "up"
    THEN {[event |-> t.id, channel |-> DefaultChannel, type |-> "radio_message",
           text |-> NotificationPayload(t)]}
    ELSE {}

\* send_transmission_notification: TRUE when an exception leaves the receiver
\* (the try/except Exception around the publish swallows it)
NotificationRaises == FALSE

\* channel layer group_send: the event reaches every current member of the group
Delivered(sends) ==
    [c \in Conns |->
        IF conn[c].state = "open"
        THEN received[c] \cup {m.event : m \in {x \in sends : c \in layer[x.channel]}}
        ELSE received[c]]

\* the events of these sends that reach a connection which was handed them before
Redelivered(sends) ==
    [c \in Conns |->
        IF conn[c].state = "open"
        THEN redelivered[c] \cup
                ({m.event : m \in {x \in sends : c \in layer[x.channel]}} \cap received[c])
        ELSE redelivered[c]]


\* ---------------------------------------------------- import: the request

Procs == 1 .. NumProcs

\* the literal "Token " of has_permission
TokenScheme == <<"T", "o", "k", "e", "n", " ">>

\* settings.ADD_TRANS_AUTH_TOKEN, the configured secret
ADD_TRANS_AUTH_TOKEN == <<"s", "3", "c">>

\* HasTransmissionImportToken.has_permission
HasPermission(header) == RemoveAll(header, TokenScheme) = ADD_TRANS_AUTH_TOKEN

ValidHeader == TokenScheme \o ADD_TRANS_AUTH_TOKEN

\* Authorization header values a caller can send (<<>>: no header)
Headers ==
    { <<>>,
      ValidHeader,
      ADD_TRANS_AUTH_TOKEN,
      TokenScheme \o <<"b", "a", "d">>,
      <<"s">> \o TokenScheme \o <<"3", "c">>,
      ValidHeader \o <<"x">> }


IntEntry(n) == [kind |-> "dict", src_kind |-> "int", src |-> n]
StrEntry == [kind |-> "dict", src_kind |-> "str", src |-> 0]       \* {"src": "abc"}
NoSrcEntry == [kind |-> "dict", src_kind |-> "missing", src |-> 0] \* {}
ScalarEntry == [kind |-> "scalar", src_kind |-> "missing", src |-> 0] \* 5, not an object

SrcLists ==
    { <<IntEntry(7), IntEntry(8)>>,
      <<IntEntry(7), IntEntry(7)>>,
      <<IntEntry(7), StrEntry>>,
      <<ScalarEntry>> }

Payload(sys, tgKind, tg, src) ==
    [system |-> sys, talkgroup_kind |-> tgKind, talkgroup |-> tg, srcList |-> src]

BasePayload == Payload(<<"M", "e", "t">>, "int", 1000, <<IntEntry(7), IntEntry(8)>>)

\* request bodies; start_time, stop_time and audio_filename are present and well formed
Payloads ==
    {Payload(<<"M", "e", "t">>, "int", 1000, src) : src \in SrcLists}
    \cup {Payload(<<"m", "e", "t">>, "int", 1000, <<NoSrcEntry>>),   \* another system name
          Payload(<<>>, "int", 1000, <<>>),                  \* system blank or missing
          Payload(<<"M", "e", "t">>, "str", 0, <<>>)}         \* talkgroup "abc" or missing

Requests ==
    {[header |-> h, payload |-> BasePayload] : h \in Headers}
    \cup {[header |-> ValidHeader, payload |-> pl] : pl \in Payloads}

\* TransmissionImportSerializer.is_valid: CharField (required, not blank),
\* IntegerField, ListField(child=DictField()) whose DictField leaves values unvalidated
IsValid(pl) ==
    /\ pl.system # <<>>
    /\ pl.talkgroup_kind = "int"
    /\ \A i \in DOMAIN pl.srcList : pl.srcList[i].kind = "dict"

\* mutant: the model still has the fields migration 0004 renamed or removed
TransmissionFieldNames_Legacy ==
    {"id", "pk", "slug", "start_datetime", "end_datetime", "play_length", "audio_file",
     "system", "talkgroup_info", "talkgroup", "talkgroup_name", "system_name",
     "units_json", "freq", "emergency", "created_at", "audio_file_url_path",
     "audio_file_type", "has_audio"}

\* the field names of the Transmission model (with the implicit id / pk)
TransmissionFieldNames ==
    {"id", "pk", "slug", "start_datetime", "end_datetime", "play_length", "audio_file",
     "system", "talkgroup_info", "talkgroup_dec_id", "talkgroup_name", "system_name",
     "units_json", "freq", "emergency", "created_at"}

\* the keyword arguments post() hands to Transmission.objects.create
ImportCreateKwargs ==
    {"system", "talkgroup_info", "talkgroup", "start_datetime", "end_datetime",
     "audio_file", "audio_file_url_path", "audio_file_type", "play_length",
     "has_audio", "emergency", "freq"}

\* Model.__init__ raises TypeError for a keyword that names no field or property
CreateRaisesTypeError == ImportCreateKwargs \ TransmissionFieldNames # {}

\* the "transmission_id" of the 201 response
ImportResponseId(t) == <<"pk", t.id>>

IdleImport ==
    [pc |-> "idle", header |-> <<>>, payload |-> BasePayload, system |-> 0,
     talkgroup |-> 0, status |-> 0, err |-> "none", tid |-> 0, resp |-> <<"none", 0>>,
     sys_raced |-> FALSE, tg_raced |-> FALSE]

Fail(r, status, err) == [r EXCEPT !.pc = "done", !.status = status, !.err = err]


\* ------------------------------------------------------ import: the handler

\* permission check and serializer.is_valid(): 403, 400, or on to the handler body
ImportStart(p) ==
    /\ imp[p].pc = "idle"
    /\ \E rq \in Requests :
         LET r == [imp[p] EXCEPT !.header = rq.header, !.payload = rq.payload]
         IN imp' = [imp EXCEPT ![p] =
                IF ~HasPermission(rq.header) THEN Fail(r, 403, "PermissionDenied")
                ELSE IF ~IsValid(rq.payload) THEN Fail(r, 400, "ValidationError")
                ELSE [r EXCEPT !.pc = "sys_get"]]
    /\ UNCHANGED <<storeVars, aclVars, channel_layer, authVars, published, wsVars, created_as>>

\* System.objects.get_or_create(name=...): the lookup
SysGet(p) ==
    /\ imp[p].pc = "sys_get"
    /\ LET found == {s \in systems : s.name = imp[p].payload.system}
       IN imp' = [imp EXCEPT ![p] =
              IF found # {}
              THEN [@ EXCEPT !.pc = "tg_get", !.system = (CHOOSE s \in found : TRUE).id]
              ELSE [@ EXCEPT !.pc = "sys_create"]]
    /\ UNCHANGED <<storeVars, aclVars, channel_layer, authVars, published, wsVars, created_as>>

\* System.objects.get_or_create(name=...): the create after a failed lookup; on
\* IntegrityError the lookup is tried once more and the error re-raised if it fails
SysCreate(p) ==
    /\ imp[p].pc = "sys_create"
    /\ LET row == SystemSave([id |-> NextPk(systems), name |-> imp[p].payload.system,
                              slug |-> <<>>])
           found == {s \in systems : s.name = row.name}
       IN IF SystemUniqueViolated(row)
          THEN /\ imp' = [imp EXCEPT ![p] =
                      IF found # {}
                      THEN [@ EXCEPT !.pc = "tg_get", !.sys_raced = TRUE,
                                     !.system = (CHOOSE s \in found : TRUE).id]
                      ELSE Fail(@, 500, "IntegrityError")]
               /\ UNCHANGED systems
          ELSE /\ systems' = systems \cup {row}
               /\ imp' = [imp EXCEPT ![p] = [@ EXCEPT !.pc = "tg_get", !.system = row.id]]
    /\ UNCHANGED <<talkgroups, units, transmissions, transmission_units, aclVars,
                   channel_layer, authVars, published, wsVars, created_as>>

\* TalkGroup.objects.get_or_create(system=, dec_id=, defaults=...): the lookup
TgGet(p) ==
    /\ imp[p].pc = "tg_get"
    /\ LET found == {t \in talkgroups : t.system = imp[p].system
                                        /\ t.dec_id = imp[p].payload.talkgroup}
       IN imp' = [imp EXCEPT ![p] =
              IF found # {}
              THEN [@ EXCEPT !.pc = "create", !.talkgroup = (CHOOSE t \in found : TRUE).id]
              ELSE [@ EXCEPT !.pc = "tg_create"]]
    /\ UNCHANGED <<storeVars, aclVars, channel_layer, authVars, published, wsVars, created_as>>

\* the TalkGroup row get_or_create builds: alpha_tag from defaults, is_public default
NewTalkGroup(sysId, dec_id, alpha_tag, is_public) ==
    TalkGroupSave([id |-> NextPk(talkgroups), system |-> sysId, dec_id |-> dec_id,
                   alpha_tag |-> alpha_tag, common_name |-> <<>>, slug |-> <<>>,
                   is_public |-> is_public])

\* TalkGroup.objects.get_or_create: the create after a failed lookup, with the
\* post_save receiver add_talkgroup_to_default_groups
TgCreate(p) ==
    /\ imp[p].pc = "tg_create"
    /\ LET row == NewTalkGroup(imp[p].system, imp[p].payload.talkgroup,
                               TgLabel(imp[p].payload.talkgroup), TRUE)
           found == {t \in talkgroups : t.system = row.system /\ t.dec_id = row.dec_id}
       IN IF TalkGroupUniqueViolated(row)
          THEN /\ imp' = [imp EXCEPT ![p] =
                      IF found # {}
                      THEN [@ EXCEPT !.pc = "create", !.tg_raced = TRUE,
                                     !.talkgroup = (CHOOSE t \in found : TRUE).id]
                      ELSE Fail(@, 500, "IntegrityError")]
               /\ UNCHANGED <<talkgroups, access_group_tgs>>
          ELSE /\ talkgroups' = talkgroups \cup {row}
               /\ access_group_tgs' = AddTalkgroupToDefaultGroups(access_group_tgs, row, TRUE)
               /\ imp' = [imp EXCEPT ![p] = [@ EXCEPT !.pc = "create", !.talkgroup = row.id]]
    /\ UNCHANGED <<systems, units, transmissions, transmission_units, scanlist_tgs,
                   channel_layer, authVars, published, wsVars, created_as>>

\* Unit.save on a new row
NewUnit(us, sysId, dec_id) ==
    [id |-> NextPk(us), system |-> sysId, dec_id |-> dec_id, description |-> <<>>,
     unit_number |-> <<>>,
     slug |-> SystemById(sysId).slug \o <<"-">> \o Slugify(IntToStr(dec_id))]

\* the "Add units" loop of post(), from entry i on. failAt names the junction write the
\* storage refuses (0: none). Every write is committed as it is made: post() opens no
\* transaction and ATOMIC_REQUESTS is not set.
RECURSIVE UnitLoop(_, _, _, _, _, _, _)
UnitLoop(src, i, sysId, tid, us, tus, failAt) ==
    IF i > Len(src) THEN [units |-> us, tus |-> tus, err |-> "none"]
    ELSE LET e == src[i] IN
      IF e.src_kind = "missing" \/ (e.src_kind = "int" /\ e.src = 0)
      THEN UnitLoop(src, i + 1, sysId, tid, us, tus, failAt)        \* `if unit_id:`
      ELSE IF e.src_kind = "str"
      THEN [units |-> us, tus |-> tus, err |-> "ValueError"]        \* dec_id="abc"
      ELSE LET found == {u \in us : u.system = sysId /\ u.dec_id = e.src}
               u == IF found # {} THEN CHOOSE x \in found : TRUE
                    ELSE NewUnit(us, sysId, e.src)
               us2 == us \cup {u}
           IN IF failAt = i
              THEN [units |-> us2, tus |-> tus, err |-> "OperationalError"]
              ELSE IF \E j \in tus : j.transmission = tid /\ j.unit = u.id
              THEN [units |-> us2, tus |-> tus, err |-> "IntegrityError"]
              ELSE UnitLoop(src, i + 1, sysId, tid, us2,
                            tus \cup {[transmission |-> tid, unit |-> u.id, order |-> i - 1]},
                            failAt)

\* a Transmission instance before save(): the denormalized names are not supplied
NewTransmission(uuid, sysId, tgId) ==
    [id |-> NextPk(transmissions), slug |-> uuid, system |-> sysId,
     talkgroup_info |-> tgId, talkgroup_dec_id |-> 0, talkgroup_name |-> <<>>,
     system_name |-> <<>>, units_json |-> <<>>, start_datetime |-> now,
     emergency |-> FALSE, play_length |-> 0]

\* what the FK targets of a new row are called at the moment it is created; resaved
\* turns TRUE when the row is saved again after one of them was renamed
NamesAtCreation(row) ==
    [talkgroup_name |-> DisplayName(TalkGroupById(row.talkgroup_info)),
     system_name |-> SystemById(row.system).name,
     resaved |-> FALSE]

UsedUuids == {t.slug : t \in transmissions}

\* the rest of post(): Transmission.objects.create (save, insert, post_save receiver),
\* the unit loop and the response; any exception becomes a 500
ImportCreate(p) ==
    /\ imp[p].pc = "create"
    /\ IF CreateRaisesTypeError
       THEN /\ imp' = [imp EXCEPT ![p] = Fail(@, 500, "TypeError")]
            /\ UNCHANGED <<storeVars, aclVars, channel_layer, authVars, published, wsVars, created_as>>
       ELSE \E uuid \in Uuids \ UsedUuids, failAt \in 0 .. Len(imp[p].payload.srcList) :
            LET row == TransmissionSave(NewTransmission(uuid, imp[p].system, imp[p].talkgroup))
                sends == NotificationSends(row)
                loop == UnitLoop(imp[p].payload.srcList, 1, imp[p].system, row.id,
                                 units, transmission_units, failAt)
                r == [imp[p] EXCEPT !.tid = row.id]
            IN /\ transmissions' = transmissions \cup {row}
               /\ created_as' = created_as @@ (row.id :> NamesAtCreation(row))
               /\ published' = published \cup sends
               /\ received' = Delivered(sends)
               /\ redelivered' = Redelivered(sends)
               /\ IF NotificationRaises
                  THEN /\ imp' = [imp EXCEPT ![p] = Fail(r, 500, "ChannelLayerError")]
                       /\ UNCHANGED <<units, transmission_units>>
                  ELSE /\ units' = loop.units
                       /\ transmission_units' = loop.tus
                       /\ imp' = [imp EXCEPT ![p] =
                              IF loop.err # "none" THEN Fail(r, 500, loop.err)
                              ELSE [r EXCEPT !.pc = "done", !.status = 201,
                                             !.resp = ImportResponseId(row)]]
               /\ UNCHANGED <<systems, talkgroups, aclVars, authVars, channel_layer, conn, layer,
                              unsubbed>>

ImportNext ==
    \E p \in Procs :
        \/ ImportStart(p)
        \/ SysGet(p)
        \/ SysCreate(p)
        \/ TgGet(p)
        \/ TgCreate(p)
        \/ ImportCreate(p)

EmptyStore ==
    /\ systems = {}
    /\ talkgroups = {}
    /\ units = {}
    /\ transmissions = {}
    /\ transmission_units = {}
    /\ created_as = <<>>

\* the seeded system "Met" and its talkgroup 1000, as System.save / TalkGroup.save
\* leave them
SeedSystemName == <<"M", "e", "t">>
SeedTgSlug == Slugify(SeedSystemName) \o <<"-">> \o Slugify(TgLabel(1000))

North == <<"n", "o", "r", "t", "h">>

\* slug of the unit with dec_id 7 of the seeded system, and of the one incident
SeedUnitSlug == Slugify(SeedSystemName) \o <<"-">> \o Slugify(IntToStr(7))
Fire == <<"f", "i", "r", "e">>

\* the group names a client can name: the default channel, the talkgroup-scoped
\* channel of the seeded talkgroup and the scanlist-scoped channel of "north"
Channels ==
    {DefaultChannel, ChannelName(TgType, SeedTgSlug), ChannelName(ScanType, North),
     ChannelName(UnitType, SeedUnitSlug), ChannelName(IncType, Fire)}

\* url_route kwargs: the bare path ws/ carries none, ws/<channel_type>/<label>/ both
NoRoute == [has |-> FALSE, channel_type |-> <<>>, label |-> <<>>]

\* no message received yet; seq flips with every message, frames are what the handler
\* sent back for the last one
NoReply == [seq |-> 0, type |-> "", channel |-> <<>>, frames |-> <<>>]

\* no Profile row for the user
NoProfile == [exists |-> FALSE, talkgroup_access |-> {}, history |-> 0]

Incidents == {Fire}

NoResponse == [asked |-> FALSE, seq |-> 0]

\* Plan.DEFAULT_PK, the plan the migration adds
DEFAULT_PK == 1

\* the primary keys of the Plan rows
PlanIds == {DEFAULT_PK, 2, 3}

\* a process that is in no Plan.save call
IdlePlanSave == [pc |-> "idle", pk |-> 0, is_default |-> FALSE]

\* the plans as the migration and the admin leave them: the default plan is the default
SeededPlans ==
    /\ plans = [pk \in PlanIds |-> [is_default |-> pk = DEFAULT_PK]]
    /\ plan_save = [p \in Procs |-> IdlePlanSave]

\* the primary keys a Transmission can have
TransmissionIds == 1 .. MaxTransmissions

\* archive_transmissions before it is run, with the defaults of add_arguments (days in
\* days, cutoff in minutes); old is the set of ids counted by total_count, pass the
\* parity of the passes of the while loop made so far
IdleCommand ==
    [pc |-> "idle", days |-> 90, batch_size |-> 1000, dry_run |-> FALSE,
     delete_after |-> FALSE, cutoff |-> 0, total_count |-> 0, old |-> {},
     archived_count |-> 0, deleted_count |-> 0, pass |-> 0]

\* an empty TransmissionArchive table, the command not run
NoArchiveRun ==
    /\ archive = [id \in TransmissionIds |-> 0]
    /\ cmd = IdleCommand

\* the clock at 0, no request made, the incidents empty, the plans seeded
NoApiRequests ==
    /\ now = 0
    /\ api_response = NoResponse
    /\ incident_tms = [i \in Incidents |-> {}]
    /\ SeededPlans
    /\ NoArchiveRun

Users == {"alice"}

NoResult == [asked |-> FALSE, seq |-> 0]

\* the setting defaults to False (os.getenv("ACCESS_TG_RESTRICT", "False"))
NoAccessQueries ==
    /\ profiles = [u \in Users |-> NoProfile]
    /\ access_result = NoResult
    /\ ACCESS_TG_RESTRICT = FALSE
    /\ NoApiRequests

NoConnections ==
    /\ conn = [c \in Conns |-> [state |-> "connecting", route |-> NoRoute,
                                 groups |-> <<>>, subs |-> {},
                                 attempted |-> {}, failed |-> {}, reply |-> NoReply]]
    /\ layer = [ch \in Channels |-> {}]
    /\ received = [c \in Conns |-> {}]
    /\ redelivered = [c \in Conns |-> {}]
    /\ unsubbed = [c \in Conns |-> {}]

ImportInitIn(layerStates) ==
    /\ EmptyStore
    /\ scanlist_tgs = [sl \in ScanLists |-> {}]
    /\ access_group_tgs = [g \in AccessGroups |-> {}]
    /\ imp = [p \in Procs |-> IdleImport]
    /\ channel_layer \in layerStates
    /\ published = {}
    /\ NoConnections
    /\ NoAccessQueries

\* imports against an empty store, the notification transport healthy
ImportInit == ImportInitIn({"up"})

SpecImport == ImportInit /\ [][ImportNext]_vars

\* the same with the channel layer absent or Redis unreachable
ImportOutageInit == ImportInitIn({"none", "failing"})

SpecImportOutage == ImportOutageInit /\ [][ImportNext]_vars

\* ------------------------------------------------- properties of the import

\* the entries of srcList that name a unit (`if unit_id:` is true)
UnitRefs(src) ==
    {i \in DOMAIN src : src[i].kind = "dict"
                        /\ (src[i].src_kind = "str"
                            \/ (src[i].src_kind = "int" /\ src[i].src # 0))}

\* a payload whose every srcList entry is {"src": <integer>}, no unit named twice
WellFormed(pl) ==
    /\ IsValid(pl)
    /\ \A i \in DOMAIN pl.srcList : pl.srcList[i].src_kind = "int"
    /\ \A i, j \in DOMAIN pl.srcList : pl.srcList[i].src = pl.srcList[j].src => i = j

Malformed(pl) ==
    \/ ~IsValid(pl)
    \/ \E i \in DOMAIN pl.srcList : pl.srcList[i].src_kind = "str"

TransmissionOf(p) == {t \in transmissions : t.id = imp[p].tid}
JunctionsOf(p) == {j \in transmission_units : j.transmission = imp[p].tid}

TalkGroupsFor(p) ==
    {t \in talkgroups : t.system = imp[p].system /\ t.dec_id = imp[p].payload.talkgroup}

EventsOf(p) == {m \in published : imp[p].tid # 0 /\ m.event = imp[p].tid}

UnitDisplayName(u) ==
    Or2(u.description, Or2(u.unit_number, <<"U", "n", "i", "t", " ">> \o IntToStr(u.dec_id)))

\* Transmission.set_units: the {id, name} snapshots of a list of Unit rows
SetUnits(us) == [i \in DOMAIN us |-> [id |-> us[i].dec_id, name |-> UnitDisplayName(us[i])]]

\* Transmission.get_units
GetUnits(t) == t.units_json

\* `if unit_id:` for an entry {"src": <integer>}
NamesUnit(e) == e.src_kind = "int" /\ e.src # 0

\* the Unit rows the entries of a well-formed srcList name, in the order of the list
NamedUnits(p) ==
    LET refs == SelectSeq(imp[p].payload.srcList, NamesUnit)
    IN [i \in DOMAIN refs |->
          CHOOSE u \in units : u.system = imp[p].system /\ u.dec_id = refs[i].src]

\* the junction rows of a Transmission, as the sequence of their units by order index
RECURSIVE JunctionUnits(_)
JunctionUnits(js) ==
    IF js = {} THEN <<>>
    ELSE LET j == CHOOSE x \in js : \A y \in js : x.order <= y.order
         IN <<UnitById(j.unit)>> \o JunctionUnits(js \ {j})

\* C23 as claimed: an authorized import of a well-formed payload that met no storage
\* failure is successful, and then the unit list of its Transmission is the list of
\* {id, name} snapshots of the units srcList names, in that order, and names the same
\* units in the same order as the junction rows sorted by their order index
C23_UnitListMatchesSrcList ==
    \A p \in Procs :
        (/\ imp[p].pc = "done"
         /\ imp[p].header = ValidHeader
         /\ WellFormed(imp[p].payload)
         /\ imp[p].err \notin {"IntegrityError", "OperationalError"}) =>
            /\ imp[p].status = 201
            /\ \A t \in TransmissionOf(p) :
                  /\ GetUnits(t) = SetUnits(NamedUnits(p))
                  /\ GetUnits(t) = SetUnits(JunctionUnits(JunctionsOf(p)))

\* C4 as claimed: with the channel layer absent or failing, an authorized import of a
\* well-formed payload that reached the create call ends 201 with its row persisted.
C4_FanoutFailureKeepsImport ==
    \A p \in Procs :
        (/\ imp[p].pc = "done"
         /\ imp[p].header = ValidHeader
         /\ WellFormed(imp[p].payload)
         /\ imp[p].talkgroup # 0
         /\ channel_layer \in {"none", "failing"}) =>
            imp[p].status = 201 /\ TransmissionOf(p) # {}

\* C6 as claimed: an authorized import of a well-formed payload that met no storage
\* failure ends 201, has written exactly one Transmission row, and answers with that
\* row's UUID slug.
C6_ImportReturnsOpaqueId ==
    \A p \in Procs :
        (/\ imp[p].pc = "done"
         /\ imp[p].header = ValidHeader
         /\ WellFormed(imp[p].payload)
         /\ imp[p].err \notin {"IntegrityError", "OperationalError"}) =>
            /\ imp[p].status = 201
            /\ Cardinality(TransmissionOf(p)) = 1
            /\ \A t \in TransmissionOf(p) : imp[p].resp = t.slug

\* C7 as claimed: a request is let through exactly when its header is "Token " followed
\* by the secret, and a rejected request has touched nothing.
C7_AuthorizedIffExactToken ==
    \A p \in Procs :
        imp[p].pc # "idle" =>
            /\ (imp[p].status # 403) <=> (imp[p].header = ValidHeader)
            /\ imp[p].status = 403 =>
                  imp[p].system = 0 /\ imp[p].talkgroup = 0 /\ imp[p].tid = 0

\* C8 as claimed: an authorized request whose payload has a missing or malformed field
\* (a malformed srcList entry included) stops at validation: it ends 400 and has
\* resolved or created no row.
C8_MalformedPayloadRejected ==
    \A p \in Procs :
        (/\ imp[p].pc # "idle"
         /\ HasPermission(imp[p].header)
         /\ Malformed(imp[p].payload)) =>
            /\ imp[p].pc = "done"
            /\ imp[p].status = 400
            /\ imp[p].system = 0 /\ imp[p].talkgroup = 0 /\ imp[p].tid = 0


\* ------------------------------------------------ live subscription gateway

BareRoute == NoRoute
Routes ==
    {BareRoute,
     [has |-> TRUE, channel_type |-> TgType, label |-> SeedTgSlug],
     [has |-> TRUE, channel_type |-> ScanType, label |-> North],
     [has |-> TRUE, channel_type |-> ScanType, label |-> DefaultLabel],
     [has |-> TRUE, channel_type |-> UnitType, label |-> SeedUnitSlug],
     [has |-> TRUE, channel_type |-> IncType, label |-> Fire]}

\* list.remove(x): drops the first occurrence
RECURSIVE RemoveFirst(_, _)
RemoveFirst(s, x) ==
    IF s = <<>> THEN <<>>
    ELSE IF Head(s) = x THEN Tail(s)
    ELSE <<Head(s)>> \o RemoveFirst(Tail(s), x)

\* mutant: connect joins the derived channel and not the default channel
Connect_DerivedOnly(c, r) ==
    /\ conn[c].state = "connecting"
    /\ LET channel_type == IF r.has THEN r.channel_type ELSE ScanType
           label == IF r.has THEN r.label ELSE DefaultLabel
           channel_name == ChannelName(channel_type, label)
       IN /\ layer' = [layer EXCEPT ![channel_name] = @ \cup {c}]
          /\ conn' = [conn EXCEPT ![c] = [@ EXCEPT !.state = "open", !.route = r,
                                                   !.groups = Append(@, channel_name)]]
    /\ UNCHANGED <<storeVars, aclVars, authVars, imp, channel_layer, published,
                   received, redelivered, unsubbed, created_as>>

\* RadioConsumer.connect
Connect(c, r) ==
    /\ conn[c].state = "connecting"
    /\ LET channel_type == IF r.has THEN r.channel_type ELSE ScanType
           label == IF r.has THEN r.label ELSE DefaultLabel
           channel_name == ChannelName(channel_type, label)
           g1 == Append(conn[c].groups, channel_name)
           g2 == IF channel_name # DefaultChannel THEN Append(g1, DefaultChannel) ELSE g1
       IN /\ layer' = [ch \in Channels |->
                          IF ch \in {channel_name, DefaultChannel}
                          THEN layer[ch] \cup {c} ELSE layer[ch]]
          /\ conn' = [conn EXCEPT ![c] = [@ EXCEPT !.state = "open", !.route = r,
                                                   !.groups = g2]]
    /\ UNCHANGED <<storeVars, aclVars, authVars, imp, channel_layer, published,
                   received, redelivered, unsubbed, created_as>>

\* text frames other than subscribe and unsubscribe: valid says whether json.loads
\* accepts the text, object whether the value is a JSON object, type is data["type"]
OtherMessages ==
    {[kind |-> "ping", valid |-> TRUE, object |-> TRUE, type |-> "ping"],
     [kind |-> "invalid", valid |-> FALSE, object |-> FALSE, type |-> ""],
     [kind |-> "non_object", valid |-> TRUE, object |-> FALSE, type |-> ""],
     [kind |-> "unknown", valid |-> TRUE, object |-> TRUE, type |-> "status"]}

\* the exception receive() meets on the way to its dispatch: json.loads raises
\* JSONDecodeError, data.get on a list, string, number or null raises AttributeError
ReceiveRaises(m) ==
    IF ~m.valid THEN "JSONDecodeError"
    ELSE IF ~m.object THEN "AttributeError"
    ELSE "none"

\* mutant: receive() handles JSONDecodeError only
ReceiveCatches_JsonOnly(exc) == exc = "JSONDecodeError"

\* except json.JSONDecodeError / except Exception around the body of receive()
ReceiveCatches(exc) == exc = "JSONDecodeError" \/ exc \in {"AttributeError", "Exception"}

\* RadioConsumer.receive for a frame that is no subscribe and no unsubscribe. An
\* exception nothing catches ends the consumer: the connection is closed and
\* disconnect() is not run.
ReceiveOther(c, m) ==
    /\ conn[c].state = "open"
    /\ LET exc == ReceiveRaises(m)
           frames == IF exc = "none" /\ m.type = "ping"
                     THEN <<[type |-> "pong"]>> ELSE <<>>
           survives == exc = "none" \/ ReceiveCatches(exc)
       IN conn' = [conn EXCEPT ![c] =
                      [@ EXCEPT !.state = IF survives THEN "open" ELSE "closed",
                                !.reply = [seq |-> 1 - @.seq, type |-> m.kind,
                                           channel |-> <<>>, frames |-> frames]]]
    /\ UNCHANGED <<storeVars, aclVars, authVars, imp, channel_layer, published,
                   layer, received, redelivered, unsubbed, created_as>>

\* the frame json.dumps({"type": type, "channel": ch})
Ack(type, ch) == [type |-> type, channel |-> ch]

\* RadioConsumer.receive, {"type": "subscribe", "channel": ch}
Subscribe(c, ch) ==
    /\ conn[c].state = "open"
    /\ Len(conn[c].groups) < MaxGroups
    /\ layer' = [layer EXCEPT ![ch] = @ \cup {c}]
    /\ conn' = [conn EXCEPT ![c] =
                    [@ EXCEPT !.groups = Append(@, ch),
                              !.subs = @ \cup {ch},
                              !.reply = [seq |-> 1 - @.seq, type |-> "subscribe",
                                         channel |-> ch,
                                         frames |-> <<Ack("subscribed", ch)>>]]]
    /\ unsubbed' = [unsubbed EXCEPT ![c] = @ \ {ch}]
    /\ UNCHANGED <<storeVars, aclVars, authVars, imp, channel_layer, published,
                   received, redelivered, created_as>>

\* RadioConsumer.receive, {"type": "unsubscribe", "channel": ch}
Unsubscribe(c, ch) ==
    /\ conn[c].state = "open"
    /\ IF ch \in Range(conn[c].groups)
       THEN /\ layer' = [layer EXCEPT ![ch] = @ \ {c}]
            /\ conn' = [conn EXCEPT ![c] =
                            [@ EXCEPT !.groups = RemoveFirst(@, ch),
                                      !.reply = [seq |-> 1 - @.seq, type |-> "unsubscribe",
                                                 channel |-> ch,
                                                 frames |-> <<Ack("unsubscribed", ch)>>]]]
       ELSE /\ layer' = layer
            /\ conn' = [conn EXCEPT ![c].reply =
                            [seq |-> 1 - @.seq, type |-> "unsubscribe", channel |-> ch,
                             frames |-> <<>>]]
    /\ unsubbed' = [unsubbed EXCEPT ![c] = IF ch \in conn[c].subs THEN @ \cup {ch} ELSE @]
    /\ UNCHANGED <<storeVars, aclVars, authVars, imp, channel_layer, published,
                   received, redelivered, created_as>>

\* for group in self.groups: group_discard(group), outside any try: the loop stops at
\* the first call that raises. fails: the channels whose group_discard raises.
\* Result: the channels tried, the channels left, whether the loop raised.
RECURSIVE DiscardUntilFailure(_, _)
DiscardUntilFailure(gs, fails) ==
    IF gs = <<>> THEN [attempted |-> {}, left |-> {}, raised |-> FALSE]
    ELSE IF Head(gs) \in fails
    THEN [attempted |-> {Head(gs)}, left |-> {}, raised |-> TRUE]
    ELSE LET rest == DiscardUntilFailure(Tail(gs), fails)
         IN [attempted |-> {Head(gs)} \cup rest.attempted,
             left |-> {Head(gs)} \cup rest.left, raised |-> rest.raised]

\* RadioConsumer.disconnect: every group is tried, a raise is logged and the loop goes on
DiscardEach(gs, fails) ==
    [attempted |-> Range(gs), left |-> Range(gs) \ fails, raised |-> FALSE]

\* the websocket.disconnect handler. self.groups is the attribute of the channels
\* WebsocketConsumer that RadioConsumer.__init__ rebinds: websocket_disconnect first
\* discards every entry of it, then calls RadioConsumer.disconnect, then stops the
\* consumer. A raise in the first loop ends the handler before disconnect() runs.
Disconnect(c, fails) ==
    /\ conn[c].state = "open"
    /\ fails \subseteq Range(conn[c].groups)
    /\ LET first == DiscardUntilFailure(conn[c].groups, fails)
           second == IF first.raised
                     THEN [attempted |-> {}, left |-> {}, raised |-> TRUE]
                     ELSE DiscardEach(conn[c].groups, fails)
           left == first.left \cup second.left
       IN /\ layer' = [ch \in Channels |-> IF ch \in left THEN layer[ch] \ {c} ELSE layer[ch]]
          /\ conn' = [conn EXCEPT ![c] =
                          [@ EXCEPT !.state = "closed",
                                    !.attempted = first.attempted \cup second.attempted,
                                    !.failed = fails \cap (first.attempted \cup second.attempted)]]
    /\ UNCHANGED <<storeVars, aclVars, authVars, imp, channel_layer, published,
                   received, redelivered, unsubbed, created_as>>

\* a new Transmission saved through the ORM (the admin's add form): Transmission.save,
\* the insert, and the post_save receiver send_transmission_notification
TransmissionCreate ==
    /\ Cardinality(transmissions) < MaxTransmissions
    /\ \E tg \in talkgroups, uuid \in Uuids \ UsedUuids :
          LET row == TransmissionSave(NewTransmission(uuid, tg.system, tg.id))
              sends == NotificationSends(row)
          IN /\ transmissions' = transmissions \cup {row}
             /\ created_as' = created_as @@ (row.id :> NamesAtCreation(row))
             /\ published' = published \cup sends
             /\ received' = Delivered(sends)
             /\ redelivered' = Redelivered(sends)
    /\ UNCHANGED <<systems, talkgroups, units, transmission_units, aclVars, authVars,
                   imp, channel_layer, conn, layer, unsubbed>>

\* ScanList.talkgroups.add / remove (admin)
ScanListSet(sl, tgId, member) ==
    /\ scanlist_tgs' = [scanlist_tgs EXCEPT ![sl] =
                            IF member THEN @ \cup {tgId} ELSE @ \ {tgId}]
    /\ scanlist_tgs' # scanlist_tgs
    /\ UNCHANGED <<storeVars, access_group_tgs, authVars, imp, channel_layer, published,
                   wsVars, created_as>>

\* a talkgroup of the seeded system as TalkGroup.save leaves it
SeedTalkGroup(id, dec_id, is_public) ==
    TalkGroupSave([id |-> id, system |-> 1, dec_id |-> dec_id,
                   alpha_tag |-> TgLabel(dec_id), common_name |-> <<>>,
                   slug |-> <<>>, is_public |-> is_public])

SeededStore ==
    /\ systems = {SystemSave([id |-> 1, name |-> SeedSystemName, slug |-> <<>>])}
    /\ talkgroups = {SeedTalkGroup(1, 1000, TRUE)}
    /\ units = {}
    /\ transmissions = {}
    /\ transmission_units = {}
    /\ created_as = <<>>

WSInit ==
    /\ SeededStore
    /\ scanlist_tgs = [sl \in ScanLists |-> IF sl = North THEN {1} ELSE {}]
    /\ access_group_tgs = [g \in AccessGroups |-> {}]
    /\ imp = [p \in Procs |-> IdleImport]
    /\ channel_layer = "up"
    /\ published = {}
    /\ NoConnections
    /\ NoAccessQueries

\* the routes and channels a published transmission can concern
FanoutRoutes == {r \in Routes : ~r.has \/ r.label \in {SeedTgSlug, North}}
FanoutChannels == {DefaultChannel, ChannelName(TgType, SeedTgSlug)}

WSNext ==
    \/ \E c \in Conns, r \in FanoutRoutes : Connect(c, r)
    \/ \E c \in Conns, ch \in FanoutChannels : Subscribe(c, ch)
    \/ \E c \in Conns, ch \in FanoutChannels : Unsubscribe(c, ch)
    \/ \E c \in Conns : Disconnect(c, {})
    \/ TransmissionCreate
    \/ \E member \in BOOLEAN : ScanListSet(North, 1, member)

SpecWS == WSInit /\ [][WSNext]_vars

\* the channel names the clients of the gateway runs put in their messages
GatewayChannels == {DefaultChannel, ChannelName(IncType, Fire)}

\* the gateway alone: every route, discards that can fail
GatewayNext ==
    \/ \E c \in Conns, r \in Routes : Connect(c, r)
    \/ \E c \in Conns, ch \in GatewayChannels : Subscribe(c, ch)
    \/ \E c \in Conns, ch \in GatewayChannels : Unsubscribe(c, ch)
    \/ \E c \in Conns, fails \in SUBSET Channels : Disconnect(c, fails)
    \/ \E c \in Conns, m \in OtherMessages : ReceiveOther(c, m)

SpecGateway == WSInit /\ [][GatewayNext]_vars

\* the channels the layer holds the connection in
Membership(c) == {ch \in Channels : c \in layer[ch]}

\* the channel the specification derives from the path of a connection
DerivedChannel(r) ==
    IF r.has
    THEN <<"l", "i", "v", "e", "c", "a", "l", "l", "-">> \o r.channel_type \o <<"-">> \o r.label
    ELSE DefaultChannel

C15_ClosedLeavesEveryChannel ==
    \A c \in Conns :
        conn[c].state = "closed" =>
            /\ Membership(c) \subseteq conn[c].failed
            /\ Range(conn[c].groups) \subseteq conn[c].attempted

\* C16: every unsubscribe(ch) on an open connection is answered with the frame
\* {unsubscribed, ch}, and leaves the membership as it was when the connection was not
\* a member of ch; every subscribe(ch) is answered with {subscribed, ch} and makes the
\* connection a member of ch
C16_EveryMessageAcknowledged ==
    [][\A c \in Conns :
          conn'[c].reply.seq # conn[c].reply.seq =>
              LET m == conn'[c].reply
              IN /\ m.type = "unsubscribe" =>
                        /\ m.frames = <<Ack("unsubscribed", m.channel)>>
                        /\ c \notin layer[m.channel] => Membership(c)' = Membership(c)
                 /\ m.type = "subscribe" =>
                        /\ m.frames = <<Ack("subscribed", m.channel)>>
                        /\ c \in layer'[m.channel]]_vars

\* the projection of a transmission the specification puts in an event
Projection(t) ==
    [slug |-> t.slug,
     start_datetime |-> IntToStr(t.start_datetime),
     talkgroup_slug |-> TalkGroupById(t.talkgroup_info).slug,
     talkgroup_dec_id |-> t.talkgroup_dec_id,
     talkgroup_name |-> t.talkgroup_name,
     system_name |-> t.system_name,
     emergency |-> t.emergency,
     play_length |-> t.play_length]

\* C17: every frame a client receives for a transmission is {type: "transmission",
\* data: P} with P the eight-field projection of the transmission, the same frame on
\* every channel the event was published to
C17_EventWireFormat ==
    \A c \in Conns : \A id \in received[c] :
        \A m \in {x \in published : x.event = id} :
            LET f == RadioMessage(m)
            IN /\ DOMAIN f = {"type", "data"}
               /\ f["type"] = "transmission"
               /\ f["data"] = Projection(CHOOSE t \in transmissions : t.id = id)

RouteTransmission(tgId, scan_slugs) ==
    {DefaultChannel, ChannelName(TgType, TalkGroupById(tgId).slug)}
        \cup {ChannelName(ScanType, sl) : sl \in scan_slugs}

\* C3 as claimed: the step that creates a transmission on talkgroup T publishes it to
\* exactly the default channel, the channel of T and the channel of every scanlist that
\* contains T in the state the publish runs in (and so to no incident channel).
C3_FanoutChannels ==
    [][\A t \in transmissions' \ transmissions :
          {m.channel : m \in {x \in published' : x.event = t.id}}
              = RouteTransmission(t.talkgroup_info, ScanSlugs(t.talkgroup_info))]_vars

\* C5 as claimed: once an open connection has subscribed to a channel X and later
\* unsubscribed from it, an event published to X is not delivered to the connection
\* and an event published to the default channel is.
C5_UnsubscribeStopsOnlyX ==
    [][\A c \in Conns : \A X \in unsubbed[c] :
          conn[c].state = "open" =>
              \A m \in published' \ published :
                  /\ m.channel = X /\ X # DefaultChannel => m.event \notin received'[c]
                  /\ m.channel = DefaultChannel => m.event \in received'[c]]_vars


\* ------------------------------------------- renames and re-saves (admin, ORM)

\* the values an operator types into the admin forms
AlphaTags == {<<>>, <<"O", "p", "s">>}
CommonNames == {<<>>, <<"F", "i", "r", "e">>}
SystemNames == {SeedSystemName, <<"C", "o", "u", "n", "t", "y">>}

\* an existing Transmission saved again: Transmission.save, the update, and the
\* post_save receiver (which publishes on every save, created or not)
TransmissionResave(t) ==
    /\ t \in transmissions
    /\ LET row == TransmissionSave(t)
           sends == NotificationSends(row)
           renamed == \/ DisplayName(TalkGroupById(t.talkgroup_info)) # t.talkgroup_name
                      \/ SystemById(t.system).name # t.system_name
       IN /\ transmissions' = (transmissions \ {t}) \cup {row}
          /\ created_as' = [created_as EXCEPT ![t.id].resaved = @ \/ renamed]
          /\ published' = published \cup sends
          /\ received' = Delivered(sends)
          /\ redelivered' = Redelivered(sends)
    /\ UNCHANGED <<systems, talkgroups, units, transmission_units, aclVars, authVars,
                   imp, channel_layer, conn, layer, unsubbed>>

\* a TalkGroup edited and saved: TalkGroup.save keeps the slug it has, the
\* post_save receiver does nothing for created = False
TalkGroupRename(tg, alpha_tag, common_name) ==
    /\ tg \in talkgroups
    /\ LET row == TalkGroupSave([tg EXCEPT !.alpha_tag = alpha_tag,
                                           !.common_name = common_name])
       IN /\ row # tg
          /\ talkgroups' = (talkgroups \ {tg}) \cup {row}
          /\ access_group_tgs' = AddTalkgroupToDefaultGroups(access_group_tgs, row, FALSE)
    /\ UNCHANGED <<systems, units, transmissions, transmission_units, scanlist_tgs,
                   authVars, imp, channel_layer, published, wsVars, created_as>>

\* a System edited and saved: System.save keeps the slug it has; name is unique
SystemRename(sys, name) ==
    /\ sys \in systems
    /\ LET row == SystemSave([sys EXCEPT !.name = name])
       IN /\ row # sys
          /\ ~SystemUniqueViolated(row)
          /\ systems' = (systems \ {sys}) \cup {row}
    /\ UNCHANGED <<talkgroups, units, transmissions, transmission_units, aclVars,
                   authVars, imp, channel_layer, published, wsVars, created_as>>

SaveInit ==
    /\ SeededStore
    /\ scanlist_tgs = [sl \in ScanLists |-> IF sl = North THEN {1} ELSE {}]
    /\ access_group_tgs = [g \in AccessGroups |-> {}]
    /\ imp = [p \in Procs |-> IdleImport]
    /\ channel_layer \in LayerStates
    /\ published = {}
    /\ NoConnections
    /\ NoAccessQueries

SaveNext ==
    \/ TransmissionCreate
    \/ \E t \in transmissions : TransmissionResave(t)
    \/ \E tg \in talkgroups, a \in AlphaTags, cn \in CommonNames : TalkGroupRename(tg, a, cn)
    \/ \E sys \in systems, name \in SystemNames : SystemRename(sys, name)

SpecSave == SaveInit /\ [][SaveNext]_vars

\* C9: the talkgroup_name and system_name stored on every Transmission are the display
\* name of its TalkGroup and the name of its System as they were when the row was
\* created, whatever renames and re-saves have happened since.
C9_NamesFrozenAtCreation ==
    \A t \in transmissions :
        /\ t.talkgroup_name = created_as[t.id].talkgroup_name
        /\ t.system_name = created_as[t.id].system_name

\* a Transmission saved again after both its TalkGroup and its System were renamed
C9_Witness ==
    \E t \in transmissions :
        /\ created_as[t.id].resaved
        /\ DisplayName(TalkGroupById(t.talkgroup_info)) # t.talkgroup_name
        /\ SystemById(t.system).name # t.system_name


\* ------------------------------------------------------- talkgroup access

Anonymous == "anonymous"
Principals == Users \cup {Anonymous}

\* user.is_authenticated
IsAuthenticated(user) == user \in Users

AllTalkGroups == Pks(talkgroups)
PublicTalkGroups == Pks({t \in talkgroups : t.is_public})

\* mutant: a profile also grants the public talkgroups
ProfileGetAccessibleTalkgroups_PlusPublic(profile) ==
    IF ~ACCESS_TG_RESTRICT THEN AllTalkGroups
    ELSE {id \in AllTalkGroups : \E g \in profile.talkgroup_access : id \in access_group_tgs[g]}
            \cup PublicTalkGroups

\* Profile.get_accessible_talkgroups
ProfileGetAccessibleTalkgroups(profile) ==
    IF ~ACCESS_TG_RESTRICT THEN AllTalkGroups
    ELSE {id \in AllTalkGroups : \E g \in profile.talkgroup_access : id \in access_group_tgs[g]}

\* mutant: the anonymous branch answers with every talkgroup
GetAccessibleTalkgroups_Unfiltered(user) ==
    IF ~ACCESS_TG_RESTRICT THEN AllTalkGroups
    ELSE IF ~IsAuthenticated(user) THEN AllTalkGroups
    ELSE IF profiles[user].exists THEN ProfileGetAccessibleTalkgroups(profiles[user])
    ELSE PublicTalkGroups

\* TalkGroupAccessMixin.get_accessible_talkgroups (the API views)
GetAccessibleTalkgroups(user) ==
    IF ~ACCESS_TG_RESTRICT THEN AllTalkGroups
    ELSE IF ~IsAuthenticated(user) THEN PublicTalkGroups
    ELSE IF profiles[user].exists THEN ProfileGetAccessibleTalkgroups(profiles[user])
    ELSE PublicTalkGroups

\* mutant: the page resolver adds the public talkgroups to what a profile grants
GetUserAccessibleTalkgroups_PlusPublic(user) ==
    IF ~ACCESS_TG_RESTRICT THEN AllTalkGroups
    ELSE IF ~IsAuthenticated(user) THEN PublicTalkGroups
    ELSE IF profiles[user].exists
    THEN ProfileGetAccessibleTalkgroups(profiles[user]) \cup PublicTalkGroups
    ELSE PublicTalkGroups

\* get_user_accessible_talkgroups (the page views); user.profile raising anything at
\* all falls back to the public talkgroups
GetUserAccessibleTalkgroups(user) ==
    IF ~ACCESS_TG_RESTRICT THEN AllTalkGroups
    ELSE IF ~IsAuthenticated(user) THEN PublicTalkGroups
    ELSE IF profiles[user].exists THEN ProfileGetAccessibleTalkgroups(profiles[user])
    ELSE PublicTalkGroups

Resolvers == {"api", "page"}

\* a request resolves the talkgroups of its principal; store is the TalkGroup table
\* the answer was computed from, seq alternates with every answer
AccessQuery(resolver, user) ==
    /\ access_result' =
           [asked |-> TRUE, seq |-> 1 - access_result.seq,
            resolver |-> resolver, user |-> user,
            talkgroups |-> IF resolver = "api" THEN GetAccessibleTalkgroups(user)
                           ELSE GetUserAccessibleTalkgroups(user),
            store |-> talkgroups]
    /\ UNCHANGED <<storeVars, aclVars, profiles, ACCESS_TG_RESTRICT, planVars, apiVars, imp,
                   channel_layer, published, wsVars, created_as>>

\* a TalkGroup's is_public flag edited and saved (admin)
TalkGroupSetPublic(tg, is_public) ==
    /\ tg \in talkgroups
    /\ tg.is_public # is_public
    /\ LET row == TalkGroupSave([tg EXCEPT !.is_public = is_public])
       IN /\ talkgroups' = (talkgroups \ {tg}) \cup {row}
          /\ access_group_tgs' = AddTalkgroupToDefaultGroups(access_group_tgs, row, FALSE)
    /\ UNCHANGED <<systems, units, transmissions, transmission_units, scanlist_tgs,
                   authVars, imp, channel_layer, published, wsVars, created_as>>

\* TalkGroupAccess.talkgroups.add / remove (admin)
AccessGroupSet(g, tgId, member) ==
    /\ access_group_tgs' = [access_group_tgs EXCEPT ![g] =
                                IF member THEN @ \cup {tgId} ELSE @ \ {tgId}]
    /\ access_group_tgs' # access_group_tgs
    /\ UNCHANGED <<storeVars, scanlist_tgs, authVars, imp, channel_layer, published,
                   wsVars, created_as>>

\* a user's Profile created, or its talkgroup_access replaced (admin)
ProfileSet(user, groups) ==
    /\ profiles' = [profiles EXCEPT ![user] = [@ EXCEPT !.exists = TRUE, !.talkgroup_access = groups]]
    /\ profiles' # profiles
    /\ UNCHANGED <<storeVars, aclVars, access_result, ACCESS_TG_RESTRICT, planVars, apiVars, imp,
                   channel_layer, published, wsVars, created_as>>

AccessInit ==
    /\ systems = {SystemSave([id |-> 1, name |-> SeedSystemName, slug |-> <<>>])}
    /\ talkgroups = {SeedTalkGroup(1, 1000, TRUE), SeedTalkGroup(2, 2000, FALSE)}
    /\ units = {}
    /\ transmissions = {}
    /\ transmission_units = {}
    /\ created_as = <<>>
    /\ scanlist_tgs = [sl \in ScanLists |-> {}]
    /\ access_group_tgs = [g \in AccessGroups |-> {}]
    /\ imp = [p \in Procs |-> IdleImport]
    /\ channel_layer = "up"
    /\ published = {}
    /\ NoConnections
    /\ profiles = [u \in Users |-> NoProfile]
    /\ access_result = NoResult
    /\ ACCESS_TG_RESTRICT \in BOOLEAN
    /\ NoApiRequests

AccessNext ==
    \/ \E resolver \in Resolvers, user \in Principals : AccessQuery(resolver, user)
    \/ \E tg \in talkgroups, b \in BOOLEAN : TalkGroupSetPublic(tg, b)
    \/ \E g \in AccessGroups, tgId \in AllTalkGroups, member \in BOOLEAN :
           AccessGroupSet(g, tgId, member)
    \/ \E user \in Users, groups \in SUBSET AccessGroups : ProfileSet(user, groups)

SpecAccess == AccessInit /\ [][AccessNext]_vars

\* C10: with ACCESS_TG_RESTRICT on, what either resolver answers for an unauthenticated
\* principal is exactly the set of talkgroups whose is_public flag is set in the store
\* the answer was computed from.
C10_AnonymousSeesPublic ==
    (access_result.asked /\ ACCESS_TG_RESTRICT /\ access_result.user = Anonymous) =>
        access_result.talkgroups = Pks({t \in access_result.store : t.is_public})

\* an anonymous query answered under restriction while the store holds a public
\* talkgroup and a non-public one
C10_Witness ==
    /\ access_result.asked
    /\ ACCESS_TG_RESTRICT
    /\ access_result.user = Anonymous
    /\ access_result.resolver = "api"
    /\ \E t \in access_result.store : t.is_public
    /\ \E t \in access_result.store : ~t.is_public

\* the talkgroups listed by the access groups of a profile
GroupTalkGroups(profile) == UNION {access_group_tgs[g] : g \in profile.talkgroup_access}

\* C11: every answer given to an authenticated principal is, with ACCESS_TG_RESTRICT on,
\* exactly the union of the talkgroups of its profile's access groups when it has a
\* profile and exactly the public talkgroups when it has none; with ACCESS_TG_RESTRICT
\* off every principal is answered with all talkgroups.
C11_AuthenticatedAccess ==
    [][access_result'.seq # access_result.seq =>
         LET r == access_result'
         IN /\ ~ACCESS_TG_RESTRICT => r.talkgroups = AllTalkGroups
            /\ (ACCESS_TG_RESTRICT /\ IsAuthenticated(r.user)) =>
                  r.talkgroups = IF profiles[r.user].exists
                                 THEN GroupTalkGroups(profiles[r.user])
                                 ELSE PublicTalkGroups]_vars

\* under restriction a user whose profile's groups list a non-public talkgroup, and
\* not the public one, has just been answered with exactly that
C11_Witness ==
    /\ access_result.asked
    /\ ACCESS_TG_RESTRICT
    /\ IsAuthenticated(access_result.user)
    /\ profiles[access_result.user].exists
    /\ access_result.talkgroups = GroupTalkGroups(profiles[access_result.user])
    /\ access_result.talkgroups # {}
    /\ access_result.talkgroups \cap PublicTalkGroups = {}

\* C30 as claimed: with ACCESS_TG_RESTRICT on, every answer given to a principal with a
\* profile contains every talkgroup an unauthenticated visitor can access (every
\* talkgroup with is_public set), whatever access groups the profile has
C30_LoginKeepsPublic ==
    [][access_result'.seq # access_result.seq =>
         LET r == access_result'
         IN (ACCESS_TG_RESTRICT /\ IsAuthenticated(r.user) /\ profiles[r.user].exists) =>
                PublicTalkGroups \subseteq r.talkgroups]_vars

\* C30: with ACCESS_TG_RESTRICT on, an answer given to a principal with a profile
\* contains a public talkgroup exactly when one of the profile's access groups lists
\* it: authenticating keeps the visitor's access to the public talkgroups the groups
\* list and removes the access to the others
C30_PublicOnlyThroughGroups ==
    [][access_result'.seq # access_result.seq =>
         LET r == access_result'
         IN (ACCESS_TG_RESTRICT /\ IsAuthenticated(r.user) /\ profiles[r.user].exists) =>
                \A id \in PublicTalkGroups :
                    id \in r.talkgroups <=> id \in GroupTalkGroups(profiles[r.user])]_vars

\* under restriction a user with a profile has just been answered by the page resolver
\* with a set that lacks a public talkgroup, which the anonymous visitor is granted
C30_Witness ==
    /\ access_result.asked
    /\ access_result.resolver = "page"
    /\ ACCESS_TG_RESTRICT
    /\ IsAuthenticated(access_result.user)
    /\ profiles[access_result.user].exists
    /\ access_result.store = talkgroups
    /\ \E id \in PublicTalkGroups :
          /\ id \notin access_result.talkgroups
          /\ id \in GetUserAccessibleTalkgroups(Anonymous)


\* ------------------------------------------- REST API: transmission endpoints

\* settings.ANONYMOUS_TIME (minutes), the default of the deployment
ANONYMOUS_TIME == 43200

\* Plan.history values of the plans a profile can be on (0 = unlimited)
PlanHistories == {0, 60}

\* the instants the clock is observed at
Times == {0, 120, 50000}

\* Profile.history_limit of the user, ANONYMOUS_TIME without a profile or a login
HistoryMinutes(user) ==
    IF IsAuthenticated(user) /\ profiles[user].exists
    THEN profiles[user].history
    ELSE ANONYMOUS_TIME

\* the cut of both history checks: start_datetime < now - history_minutes
OlderThanCutoff(t, user) ==
    HistoryMinutes(user) > 0 /\ t.start_datetime < now - HistoryMinutes(user)

\* HistoryLimitMixin.apply_history_limit
ApplyHistoryLimit(rows, user) == {t \in rows : ~OlderThanCutoff(t, user)}

\* TransmissionSerializer.get_audio_file
GetAudioFile(t, user) == IF OlderThanCutoff(t, user) THEN "null" ELSE "ref"

\* TransmissionViewSet.get_queryset, no query parameter given
ViewSetQueryset(user) ==
    ApplyHistoryLimit({t \in transmissions :
                          t.talkgroup_info \in GetAccessibleTalkgroups(user)}, user)

\* attributes of the Transmission class a serializer can read besides its fields
TransmissionAttributes ==
    {"audio_url", "local_start_datetime", "freq_mhz", "print_play_length", "tg_name",
     "transcription", "incidents", "transmission_units"}

\* fields a serializer declares itself
DeclaredSerializerFields == {"talkgroup_info", "units", "transcription", "audio_file", "url"}

\* TransmissionSerializer.Meta.fields
TransmissionSerializerFields ==
    {"id", "url", "slug", "start_datetime", "local_start_datetime", "end_datetime",
     "play_length", "print_play_length", "audio_file", "audio_url", "audio_file_type",
     "has_audio", "system", "talkgroup", "talkgroup_info", "tg_name", "freq", "freq_mhz",
     "units", "emergency", "transcription"}

\* TransmissionListSerializer.Meta.fields
TransmissionListSerializerFields ==
    {"id", "slug", "start_datetime", "local_start_datetime", "play_length",
     "print_play_length", "audio_url", "talkgroup", "talkgroup_info", "emergency",
     "has_audio"}

\* ModelSerializer.build_field: a name that is no model field, no attribute of the
\* model and not declared raises ImproperlyConfigured when a row is serialized
SerializerRaises(fields) ==
    fields \ (TransmissionFieldNames \cup TransmissionAttributes
                  \cup DeclaredSerializerFields) # {}

\* prefetch_related("units") / filter(units=...): Transmission has no relation "units"
UnitsRelationMissing == "units" \notin (TransmissionFieldNames \cup TransmissionAttributes)

\* the response for a queryset handed to a list serializer: no row, nothing to build.
\* selected: the rows of the queryset; items: the rows in the body
ListResponse(rows, raises) ==
    IF rows = {} THEN [status |-> 200, selected |-> {}, items |-> {}, audio |-> "none"]
    ELSE IF raises
    THEN [status |-> 500, selected |-> Pks(rows), items |-> {}, audio |-> "none"]
    ELSE [status |-> 200, selected |-> Pks(rows), items |-> Pks(rows), audio |-> "none"]

\* Http404 / Response(status=404)
NotFound == [status |-> 404, selected |-> {}, items |-> {}, audio |-> "none"]

\* an exception no handler catches
ServerError(rows) == [status |-> 500, selected |-> Pks(rows), items |-> {}, audio |-> "none"]

\* TransmissionViewSet.list
TransmissionList(user) ==
    ListResponse(ViewSetQueryset(user),
                 UnitsRelationMissing \/ SerializerRaises(TransmissionListSerializerFields))

\* TransmissionViewSet.retrieve: get_object over get_queryset, TransmissionSerializer
TransmissionRetrieve(user, slug) ==
    LET found == {t \in ViewSetQueryset(user) : t.slug = slug}
    IN IF found = {} THEN NotFound
       ELSE IF UnitsRelationMissing \/ SerializerRaises(TransmissionSerializerFields)
       THEN ServerError(found)
       ELSE LET t == CHOOSE x \in found : TRUE
            IN [status |-> 200, selected |-> {t.id}, items |-> {t.id},
                audio |-> GetAudioFile(t, user)]

\* Model.objects.get(slug=slug): "none", "one" or "many" rows match
GetBySlug(rows, slug) ==
    LET n == Cardinality({r \in rows : r.slug = slug})
    IN IF n = 0 THEN "none" ELSE IF n = 1 THEN "one" ELSE "many"

\* transmission_by_talkgroup
TransmissionByTalkgroup(slug) ==
    LET got == GetBySlug(talkgroups, slug)
    IN IF got = "none" THEN NotFound
       ELSE IF got = "many" THEN ServerError({})
       ELSE LET tg == CHOOSE r \in talkgroups : r.slug = slug
            IN ListResponse({t \in transmissions : t.talkgroup_info = tg.id},
                            SerializerRaises(TransmissionListSerializerFields))

\* transmission_by_unit
TransmissionByUnit(slug) ==
    LET got == GetBySlug(units, slug)
    IN IF got = "none" THEN NotFound
       ELSE IF got = "many" \/ UnitsRelationMissing THEN ServerError({})
       ELSE LET u == CHOOSE r \in units : r.slug = slug
            IN ListResponse({t \in transmissions :
                                \E j \in transmission_units :
                                    j.transmission = t.id /\ j.unit = u.id},
                            SerializerRaises(TransmissionListSerializerFields))

\* transmission_by_scanlist
TransmissionByScanlist(slug) ==
    IF slug \notin ScanLists THEN NotFound
    ELSE ListResponse({t \in transmissions : t.talkgroup_info \in scanlist_tgs[slug]},
                      SerializerRaises(TransmissionListSerializerFields))

\* transmission_by_incident
TransmissionByIncident(slug) ==
    IF slug \notin Incidents THEN NotFound
    ELSE ListResponse({t \in transmissions : t.id \in incident_tms[slug]},
                      SerializerRaises(TransmissionListSerializerFields))

\* a slug no row has
UnknownSlug == <<"x">>

\* the routes of api/urls.py that answer with transmissions, with the slugs asked for
ApiRoutes ==
    {<<"list", <<>>>>}
      \cup {<<"retrieve", s>> : s \in Uuids}
      \cup {<<"by_talkgroup", s>> : s \in {tg.slug : tg \in talkgroups} \cup {UnknownSlug}}
      \cup {<<"by_unit", s>> : s \in {u.slug : u \in units}}
      \cup {<<"by_scanlist", s>> : s \in ScanLists}
      \cup {<<"by_incident", s>> : s \in Incidents}

\* the view a route dispatches to
ApiDispatch(endpoint, user, slug) ==
    CASE endpoint = "list" -> TransmissionList(user)
      [] endpoint = "retrieve" -> TransmissionRetrieve(user, slug)
      [] endpoint = "by_talkgroup" -> TransmissionByTalkgroup(slug)
      [] endpoint = "by_unit" -> TransmissionByUnit(slug)
      [] endpoint = "by_scanlist" -> TransmissionByScanlist(slug)
      [] endpoint = "by_incident" -> TransmissionByIncident(slug)

\* one GET of a transmission route by a principal
ApiRequest(endpoint, user, slug) ==
    LET resp == ApiDispatch(endpoint, user, slug)
    IN /\ api_response' = [asked |-> TRUE, seq |-> 1 - api_response.seq,
                           endpoint |-> endpoint, user |-> user, slug |-> slug,
                           status |-> resp.status, selected |-> resp.selected,
                           items |-> resp.items,
                           audio |-> resp.audio]
       /\ UNCHANGED <<storeVars, aclVars, imp, channel_layer, published, wsVars,
                      created_as, profiles, access_result, ACCESS_TG_RESTRICT, planVars, now,
                      incident_tms>>

\* time passes
Tick ==
    /\ \E t \in Times : t > now /\ now' = t
    /\ UNCHANGED <<storeVars, aclVars, imp, channel_layer, published, wsVars,
                   created_as, profiles, access_result, ACCESS_TG_RESTRICT, planVars,
                   api_response, incident_tms>>

\* Profile.plan is set to a plan with this history (admin)
ProfileSetPlan(user, h) ==
    /\ profiles[user].exists
    /\ profiles[user].history # h
    /\ profiles' = [profiles EXCEPT ![user].history = h]
    /\ UNCHANGED <<storeVars, aclVars, imp, channel_layer, published, wsVars,
                   created_as, access_result, ACCESS_TG_RESTRICT, planVars, apiVars>>

\* Incident.transmissions.add (admin)
IncidentAdd(inc, tid) ==
    /\ tid \notin incident_tms[inc]
    /\ incident_tms' = [incident_tms EXCEPT ![inc] = @ \cup {tid}]
    /\ UNCHANGED <<storeVars, aclVars, imp, channel_layer, published, wsVars,
                   created_as, profiles, access_result, ACCESS_TG_RESTRICT, planVars, now,
                   api_response>>

\* the unit the listing starts with
SeedUnit == NewUnit({}, 1, 7)

ListingInit ==
    /\ systems = {SystemSave([id |-> 1, name |-> SeedSystemName, slug |-> <<>>])}
    /\ talkgroups = {SeedTalkGroup(1, 1000, TRUE), SeedTalkGroup(2, 2000, FALSE)}
    /\ units = {SeedUnit}
    /\ transmissions = {}
    /\ transmission_units = {}
    /\ created_as = <<>>
    /\ scanlist_tgs = [sl \in ScanLists |-> IF sl = North THEN {2} ELSE {}]
    /\ access_group_tgs = [g \in AccessGroups |-> IF g = "manual" THEN {2} ELSE {}]
    /\ imp = [p \in Procs |-> IdleImport]
    /\ channel_layer = "up"
    /\ published = {}
    /\ NoConnections
    /\ profiles = [u \in Users |->
                      [exists |-> TRUE, talkgroup_access |-> {"manual"}, history |-> 60]]
    /\ access_result = NoResult
    /\ ACCESS_TG_RESTRICT = TRUE
    /\ NoApiRequests

ListingNext ==
    \/ TransmissionCreate
    \/ Tick
    \/ \E user \in Users, h \in PlanHistories : ProfileSetPlan(user, h)
    \/ \E inc \in Incidents, tid \in Pks(transmissions) : IncidentAdd(inc, tid)
    \/ \E user \in Principals, r \in ApiRoutes : ApiRequest(r[1], user, r[2])

SpecListing == ListingInit /\ [][ListingNext]_vars

\* the transmission a retrieve names, as a set
Named(slug) == {t \in transmissions : t.slug = slug}

\* C12: a retrieve of an accessible transmission that started more than h > 0 minutes
\* before the request, h the history cutoff of the principal, answers 200 with the
\* metadata and a null audio reference; with h = 0 the audio reference is never null
C12_OldTransmissionKeepsMetadata ==
    [][api_response'.seq # api_response.seq /\ api_response'.endpoint = "retrieve" =>
         LET r == api_response'
         IN \A t \in Named(r.slug) :
               t.talkgroup_info \in GetAccessibleTalkgroups(r.user) =>
                  /\ OlderThanCutoff(t, r.user) =>
                         r.status = 200 /\ r.items = {t.id} /\ r.audio = "null"
                  /\ HistoryMinutes(r.user) = 0 => r.audio # "null"]_vars

\* the endpoints that answer with a list of transmissions
ListingEndpoints == {"list", "by_talkgroup", "by_unit", "by_scanlist", "by_incident"}

\* C13: every transmission a listing endpoint selects for its answer belongs to a
\* talkgroup the principal can access and started within the principal's history cutoff
C13_ListingsFiltered ==
    [][api_response'.seq # api_response.seq
         /\ api_response'.endpoint \in ListingEndpoints =>
         LET r == api_response'
         IN \A t \in transmissions :
               t.id \in r.selected \cup r.items =>
                  /\ t.talkgroup_info \in GetAccessibleTalkgroups(r.user)
                  /\ ~OlderThanCutoff(t, r.user)]_vars


\* -------------------------------------------------- delivery to live listeners

\* connections come and go while transmissions are saved and saved again
DeliveryNext ==
    \/ \E c \in Conns, r \in FanoutRoutes : Connect(c, r)
    \/ \E c \in Conns, ch \in FanoutChannels : Subscribe(c, ch)
    \/ \E c \in Conns, ch \in FanoutChannels : Unsubscribe(c, ch)
    \/ \E c \in Conns : Disconnect(c, {})
    \/ TransmissionCreate
    \/ \E t \in transmissions : TransmissionResave(t)

SpecDelivery == WSInit /\ [][DeliveryNext]_vars

\* C18: with a healthy transport, the event of every new transmission is handed to every
\* open connection that is a member of the default channel, whatever other channels it
\* has joined, and no connection is ever handed the event of a transmission twice
C18_ExactlyOnceOnDefault ==
    [][\A c \in Conns :
          /\ \A t \in transmissions' \ transmissions :
                 (channel_layer = "up" /\ conn[c].state = "open"
                    /\ c \in layer[DefaultChannel]) => t.id \in received'[c]
          /\ redelivered'[c] = {}]_vars


\* ------------------------------------------------------------------- plans

\* Plan.save, first statement: with is_default set on the instance, one UPDATE clears
\* the flag of every other default plan. No transaction or lock is opened.
PlanSaveClear(p, pk, is_default) ==
    /\ plan_save[p].pc = "idle"
    /\ plans' = IF is_default
                THEN [k \in PlanIds |->
                        IF k # pk /\ plans[k].is_default
                        THEN [plans[k] EXCEPT !.is_default = FALSE] ELSE plans[k]]
                ELSE plans
    /\ plan_save' = [plan_save EXCEPT ![p] =
                         [pc |-> "write", pk |-> pk, is_default |-> is_default]]
    /\ UNCHANGED <<storeVars, aclVars, imp, channel_layer, published, wsVars, created_as,
                   profiles, access_result, ACCESS_TG_RESTRICT, apiVars, archiveVars>>

\* Plan.save, second statement: super().save writes the row of the instance
PlanSaveWrite(p) ==
    /\ plan_save[p].pc = "write"
    /\ plans' = [plans EXCEPT ![plan_save[p].pk].is_default = plan_save[p].is_default]
    /\ plan_save' = [plan_save EXCEPT ![p] = IdlePlanSave]
    /\ UNCHANGED <<storeVars, aclVars, imp, channel_layer, published, wsVars, created_as,
                   profiles, access_result, ACCESS_TG_RESTRICT, apiVars, archiveVars>>

PlanNext ==
    \E p \in Procs :
        \/ \E pk \in PlanIds, is_default \in BOOLEAN : PlanSaveClear(p, pk, is_default)
        \/ PlanSaveWrite(p)

SpecPlan == ImportInit /\ [][PlanNext]_vars

\* the plans flagged default
DefaultPlans == {pk \in PlanIds : plans[pk].is_default}

\* C19: whenever no Plan.save is under way at most one Plan is the default, and a save
\* of a Plan with is_default = true that has just completed left it the only default
C19_AtMostOneDefaultPlan ==
    [][(\A p \in Procs : plan_save'[p].pc = "idle") =>
          /\ Cardinality(DefaultPlans') <= 1
          /\ \A p \in Procs :
                 (plan_save[p].pc = "write" /\ plan_save[p].is_default) =>
                     DefaultPlans' = {plan_save[p].pk}]_vars


\* ------------------------------------------------------------ talkgroup slugs

\* dec_ids no seeded talkgroup has
NewDecIds == {3000, 4000}

\* a TalkGroup added through the admin or the ORM: the unique constraint on
\* (dec_id, system), TalkGroup.save, the post_save receiver
TalkGroupCreate(sysId, dec_id, alpha_tag) ==
    /\ Cardinality(talkgroups) < MaxTalkGroups
    /\ LET row == NewTalkGroup(sysId, dec_id, alpha_tag, TRUE)
       IN /\ ~TalkGroupUniqueViolated(row)
          /\ talkgroups' = talkgroups \cup {row}
          /\ access_group_tgs' = AddTalkgroupToDefaultGroups(access_group_tgs, row, TRUE)
    /\ UNCHANGED <<systems, units, transmissions, transmission_units, scanlist_tgs,
                   authVars, imp, channel_layer, published, wsVars, created_as>>

SlugNext ==
    \/ \E sys \in systems, dec_id \in NewDecIds, alpha_tag \in AlphaTags :
           TalkGroupCreate(sys.id, dec_id, alpha_tag)
    \/ \E user \in Principals, tg \in talkgroups :
           ApiRequest("by_talkgroup", user, tg.slug)

SpecSlug == ListingInit /\ [][SlugNext]_vars

\* C20: no two TalkGroup rows have the same slug, and a lookup of a talkgroup by slug
\* never meets more than one row
C20_TalkGroupSlugUnique ==
    /\ \A a, b \in talkgroups : a.slug = b.slug => a = b
    /\ (api_response.asked /\ api_response.endpoint = "by_talkgroup") =>
           GetBySlug(talkgroups, api_response.slug) # "many"

\* ------------------------------------------- fan-out and access restriction

\* scope["user"] of a connection: AuthMiddlewareStack resolves the handshake's session;
\* the handshakes of these runs carry none, so the principal is AnonymousUser
ScopeUser(c) == Anonymous

\* live listeners while transmissions of public and non-public talkgroups are saved
FanoutAccessNext ==
    \/ \E c \in Conns, r \in FanoutRoutes : Connect(c, r)
    \/ \E c \in Conns, ch \in FanoutChannels : Subscribe(c, ch)
    \/ \E c \in Conns, ch \in FanoutChannels : Unsubscribe(c, ch)
    \/ \E c \in Conns : Disconnect(c, {})
    \/ TransmissionCreate

SpecFanoutAccess == ListingInit /\ [][FanoutAccessNext]_vars

\* C24: with access restriction enabled, a connection is handed the event of a
\* transmission only if the transmission's talkgroup is in the accessible talkgroup set
\* of the connection's principal, whatever route it connected on and whatever channels
\* it subscribed to
C24_FanoutRespectsAccess ==
    ACCESS_TG_RESTRICT =>
        \A c \in Conns : \A t \in transmissions :
            t.id \in received[c] =>
                t.talkgroup_info \in GetAccessibleTalkgroups(ScopeUser(c))


\* ------------------------------------------------ import: system resolution

\* the steps of an import that belong to System.objects.get_or_create
SystemResolution == {"sys_get", "sys_create"}

\* C25: system resolution of a valid authorized import of system name N ends with a
\* System row named N and does not fail, whatever systems are stored (names that
\* differ from N in letter case or punctuation included); for a stored name it yields
\* the stored row and creates none
C25_SystemResolved ==
    [][\A p \in Procs :
          (imp[p].pc \in SystemResolution /\ imp'[p].pc \notin SystemResolution) =>
             LET N == imp[p].payload.system
                 stored == {s \in systems : s.name = N}
             IN /\ imp'[p].pc = "tg_get"
                /\ \E s \in systems' : s.name = N /\ s.id = imp'[p].system
                /\ stored # {} => systems' = systems /\ imp'[p].system \in Pks(stored)]_vars


\* --------------------------------------------- private scanlists and incidents

\* the ScanList rows of the listing runs: public and created_by
ScanListRow(sl) == [public |-> sl # North, created_by |-> "alice"]

\* the Incident rows of the listing runs: public and created_by
IncidentRow(inc) == [public |-> FALSE, created_by |-> "alice"]

\* user.is_staff: no user of the listing runs is staff
IsStaff(user) == FALSE

\* the answers that refuse a read
Refusals == {403, 404}

\* C26: the transmissions of a scanlist with public = false are readable only by the
\* user who created it, those of an incident with public = false only by its creator
\* or a staff user: the by-scanlist and by-incident endpoints refuse everybody else
\* and select nothing for them
C26_PrivateGroupingsOwnerOnly ==
    [][api_response'.seq # api_response.seq =>
         LET r == api_response'
         IN /\ (/\ r.endpoint = "by_scanlist" /\ r.slug \in ScanLists
                 /\ ~ScanListRow(r.slug).public
                 /\ r.user # ScanListRow(r.slug).created_by) =>
                    r.status \in Refusals /\ r.selected = {} /\ r.items = {}
            /\ (/\ r.endpoint = "by_incident" /\ r.slug \in Incidents
                 /\ ~IncidentRow(r.slug).public
                 /\ r.user # IncidentRow(r.slug).created_by /\ ~IsStaff(r.user)) =>
                    r.status \in Refusals /\ r.selected = {} /\ r.items = {}]_vars


\* ------------------------------------------ gateway: membership bookkeeping

\* C27: while a connection is open it is a member of the default channel, after any
\* sequence of ping, subscribe and unsubscribe messages, an unsubscribe that names the
\* default channel included
C27_OpenStaysOnDefault ==
    \A c \in Conns : conn[c].state = "open" => c \in layer[DefaultChannel]

\* C28: the channels in the connection's own list (self.groups) are the channel-layer
\* groups the connection is a member of, after any sequence of connect, subscribe
\* (repeated ones included) and unsubscribe
C28_LocalListMatchesLayer ==
    \A c \in Conns : conn[c].state = "open" => Range(conn[c].groups) = Membership(c)


\* ------------------------------------------------- archive_transmissions

\* timedelta(days=1), in the minutes of the clock
MinutesPerDay == 1440

\* the --days, --batch-size values and start times the runs draw from, and the clock
ArchiveDays == {1, 90}
BatchSizes == {1, 1000}
StartTimes == {0, 100000}
ArchiveClock == {130000}

\* a stored Transmission of the seeded talkgroup that started at start
ArchiveRow(id, start) ==
    TransmissionSave([id |-> id, slug |-> <<"uuid", id>>, system |-> 1,
                      talkgroup_info |-> 1, talkgroup_dec_id |-> 0,
                      talkgroup_name |-> <<>>, system_name |-> <<>>, units_json |-> <<>>,
                      start_datetime |-> start, emergency |-> FALSE, play_length |-> 0])

\* the Transmission tables the command is run against
ArchiveTables ==
    UNION {{{ArchiveRow(id, f[id]) : id \in ids} : f \in [ids -> StartTimes]}
              : ids \in SUBSET TransmissionIds}

\* Transmission.objects.filter(start_datetime__lt=cutoff_date)
OlderThan(cutoff) == {t \in transmissions : t.start_datetime < cutoff}

\* .order_by("start_datetime")[:batch_size]: the results a database may return, rows
\* with equal start times in any order
Batches(cutoff, batch_size) ==
    {b \in SUBSET OlderThan(cutoff) :
        /\ Cardinality(b) = IF Cardinality(OlderThan(cutoff)) < batch_size
                            THEN Cardinality(OlderThan(cutoff)) ELSE batch_size
        /\ \A x \in b : \A y \in OlderThan(cutoff) \ b :
               x.start_datetime <= y.start_datetime}

\* the counters of the command and of the archive count up to a cap and stay there
UpTo(n, cap) == IF n < cap THEN n ELSE cap

\* the cap of archived_count and deleted_count
MaxArchived == MaxArchiveCopies * MaxTransmissions

\* handle(): options, cutoff_date, total_count, the two early returns
ArchiveStart ==
    /\ cmd.pc = "idle"
    /\ LET cutoff == now - cmd.days * MinutesPerDay
           total == Cardinality(OlderThan(cutoff))
       IN cmd' = [cmd EXCEPT !.cutoff = cutoff, !.total_count = total,
                             !.old = Pks(OlderThan(cutoff)),
                             !.pc = IF total = 0 \/ cmd.dry_run THEN "done" ELSE "batch"]
    /\ UNCHANGED <<storeVars, aclVars, imp, channel_layer, published, wsVars, created_as,
                   profiles, access_result, ACCESS_TG_RESTRICT, apiVars, plans, plan_save,
                   archive>>

\* handle(): one pass of the while True loop: fetch a batch, stop when it is empty,
\* else bulk_create the archive rows and, with --delete-after, delete the originals
\* (TransmissionUnit rows and incident links go with them)
ArchiveBatch ==
    /\ cmd.pc = "batch"
    /\ \E batch \in Batches(cmd.cutoff, cmd.batch_size) :
          IF batch = {}
          THEN /\ cmd' = [cmd EXCEPT !.pc = "done"]
               /\ UNCHANGED <<storeVars, archive, incident_tms>>
          ELSE /\ archive' = [id \in TransmissionIds |->
                                 IF id \in Pks(batch)
                                 THEN UpTo(archive[id] + 1, MaxArchiveCopies)
                                 ELSE archive[id]]
               /\ cmd' = [cmd EXCEPT
                            !.pass = 1 - @,
                            !.archived_count = UpTo(@ + Cardinality(batch), MaxArchived),
                            !.deleted_count = IF cmd.delete_after
                                              THEN UpTo(@ + Cardinality(batch), MaxArchived)
                                              ELSE @]
               /\ IF cmd.delete_after
                  THEN /\ transmissions' = transmissions \ batch
                       /\ transmission_units' =
                              {j \in transmission_units : j.transmission \notin Pks(batch)}
                       /\ incident_tms' = [i \in Incidents |-> incident_tms[i] \ Pks(batch)]
                  ELSE UNCHANGED <<transmissions, transmission_units, incident_tms>>
               /\ UNCHANGED <<systems, talkgroups, units>>
    /\ UNCHANGED <<aclVars, imp, channel_layer, published, wsVars, created_as,
                   profiles, access_result, ACCESS_TG_RESTRICT, now, api_response,
                   plans, plan_save>>

\* the command is run once, with any options, against any table
ArchiveInit ==
    /\ systems = {SystemSave([id |-> 1, name |-> SeedSystemName, slug |-> <<>>])}
    /\ talkgroups = {SeedTalkGroup(1, 1000, TRUE)}
    /\ units = {}
    /\ transmissions \in ArchiveTables
    /\ transmission_units = {}
    /\ created_as = <<>>
    /\ scanlist_tgs = [sl \in ScanLists |-> {}]
    /\ access_group_tgs = [g \in AccessGroups |-> {}]
    /\ imp = [p \in Procs |-> IdleImport]
    /\ channel_layer = "up"
    /\ published = {}
    /\ NoConnections
    /\ profiles = [u \in Users |-> NoProfile]
    /\ access_result = NoResult
    /\ ACCESS_TG_RESTRICT = FALSE
    /\ now \in ArchiveClock
    /\ api_response = NoResponse
    /\ incident_tms = [i \in Incidents |-> {}]
    /\ SeededPlans
    /\ archive = [id \in TransmissionIds |-> 0]
    /\ cmd \in {[IdleCommand EXCEPT !.days = d, !.batch_size = b, !.dry_run = dry,
                                     !.delete_after = del] :
                   d \in ArchiveDays, b \in BatchSizes, dry \in BOOLEAN, del \in BOOLEAN}

ArchiveNext ==
    \/ ArchiveStart
    \/ ArchiveBatch

\* the command is a single process: it keeps running until it returns
SpecArchive == ArchiveInit /\ [][ArchiveNext]_vars /\ WF_vars(ArchiveNext)

\* C29: the command returns for every table and every option combination, and when a
\* run that is not a dry run has returned, TransmissionArchive holds exactly one row
\* for each transmission that was older than the cutoff and none for the others
C29_ArchiveTerminatesExactlyOnce ==
    /\ <>(cmd.pc = "done")
    /\ [](cmd.pc = "done" /\ ~cmd.dry_run =>
             \A id \in TransmissionIds :
                archive[id] = IF id \in cmd.old THEN 1 ELSE 0)

====
